---- MODULE Spec2Model ----
(***************************************************************************)
(* Model of two plugins of the repository:                                 *)
(*   - lib/ansible/plugins/callback/influxdb.py  (run-telemetry callback)  *)
(*   - lib/ansible/modules/web_infrastructure/sophos_utm/utm_aaa_group.py  *)
(*     (reconciler of an aaa/group object of a Sophos UTM)                 *)
(* The two components do not interact; each has its own specification.     *)
(***************************************************************************)
EXTENDS Integers, Sequences, FiniteSets, TLC

VARIABLES
    (* ---- influxdb.py: CallbackModule instance ---- *)
    has_influxdb,    \* HAS_INFLUXDB: did "from influxdb import ..." succeed
    phase,           \* "constructed" | "configured" | "ended" (the run-end handler
                     \* ran) | "skipped" (the run ended, the plugin being disabled)
    disabled,        \* self.disabled
    play,            \* self.play
    start_time,      \* self.start_time   : play -> ms
    all_end_times,   \* self.all_end_times: play -> (host -> [end_time, state])
    influx,          \* self.influx       : option key -> value
    config,          \* what the configuration system holds per option
    now,             \* the wall clock, in ms
    nevents,         \* how many play-start and host-outcome events were dispatched
    last_event,      \* the last event delivered to a handler, and how many
                     \* accumulator entries its handler replaced or discarded
    last_error,      \* the exception the last handler raised, or "none"
    sink_reachable,  \* is the InfluxDB reachable at flush time
    sink_calls,      \* calls made on the influxdb client library, in order
    sink_written,    \* batches accepted by write_points, in order
    conn_open,       \* an InfluxDBClient was created and not closed
    (* ---- utm_aaa_group.py: remote store and module invocations ---- *)
    remote,          \* the UTM's aaa/group collection: name -> object | Absent
    result,          \* the outcome of the last module invocation
    prev             \* the invocation before it: its outcome, and whether it
                     \* had the arguments of the last one

aggVars == <<has_influxdb, phase, disabled, play, start_time, all_end_times,
             influx, config, now, nevents, last_event, last_error, sink_reachable,
             sink_calls, sink_written, conn_open>>
utmVars == <<remote, result, prev>>
vars == <<aggVars, utmVars>>

(***************************************************************************)
(* Bounds of the model.                                                    *)
(***************************************************************************)
MaxTime == 2
MaxEvents == 4
Times == 0..MaxTime
Plays == {"site-deploy", "db-deploy"}
Hosts == {"web1", "web2"}

(***************************************************************************)
(* Python values of the options.  Every option has one type; None of an    *)
(* option is a value of that option's type tagged "none".                  *)
(***************************************************************************)
IntV(n) == [t |-> "int", v |-> n]
StrV(s) == [t |-> "str", v |-> s]
BoolV(b) == [t |-> "bool", v |-> b]
NoneInt == [t |-> "none", v |-> 0]
NoneStr == [t |-> "none", v |-> ""]
NoneBool == [t |-> "none", v |-> FALSE]

IsNone(x) == x.t = "none"

\* Python truthiness: None, 0, "" and False are falsy.
Truthy(x) ==
    IF x.t = "int" THEN x.v /= 0
    ELSE IF x.t = "str" THEN x.v /= ""
    ELSE IF x.t = "bool" THEN x.v
    ELSE FALSE

\* Python's "x or d".
PyOr(x, d) == IF Truthy(x) THEN x ELSE d

OptionNames == {"influx_host", "influx_port", "influx_database", "influx_username",
                "influx_password", "influx_use_ssl", "influx_verify_ssl",
                "influx_timeout", "influx_retries", "influx_measurement_name"}

\* The None of each option's declared type.
OptionNone(o) ==
    IF o \in {"influx_port", "influx_timeout", "influx_retries"} THEN NoneInt
    ELSE IF o \in {"influx_use_ssl", "influx_verify_ssl"} THEN NoneBool
    ELSE NoneStr

\* DOCUMENTATION: the default each option declares (None when it declares none).
DocDefault(o) ==
    CASE o = "influx_port" -> IntV(8086)
      [] o = "influx_use_ssl" -> BoolV(FALSE)
      [] o = "influx_verify_ssl" -> BoolV(TRUE)
      [] o = "influx_timeout" -> IntV(5)
      [] o = "influx_retries" -> IntV(3)
      [] o = "influx_measurement_name" -> StrV("ansible_plays")
      [] OTHER -> OptionNone(o)

\* The values the configuration (environment variable or ini key) can hold
\* for an option; None stands for "not configured".
OptionValues(o) ==
    CASE o = "influx_host" -> {NoneStr, StrV(""), StrV("influx.example")}
      [] o = "influx_database" -> {NoneStr, StrV(""), StrV("metrics")}
      [] o = "influx_username" -> {StrV("ansible")}
      [] o = "influx_password" -> {StrV("secret")}
      [] o = "influx_port" -> {NoneInt, IntV(0), IntV(8087)}
      [] o = "influx_use_ssl" -> {NoneBool, BoolV(FALSE), BoolV(TRUE)}
      [] o = "influx_verify_ssl" -> {NoneBool, BoolV(FALSE), BoolV(TRUE)}
      [] o = "influx_timeout" -> {NoneInt, IntV(0), IntV(10)}
      [] o = "influx_retries" -> {NoneInt, IntV(0), IntV(7)}
      [] o = "influx_measurement_name" -> {NoneStr, StrV("plays")}

Configs ==
    [influx_host : OptionValues("influx_host"),
     influx_port : OptionValues("influx_port"),
     influx_database : OptionValues("influx_database"),
     influx_username : OptionValues("influx_username"),
     influx_password : OptionValues("influx_password"),
     influx_use_ssl : OptionValues("influx_use_ssl"),
     influx_verify_ssl : OptionValues("influx_verify_ssl"),
     influx_timeout : OptionValues("influx_timeout"),
     influx_retries : OptionValues("influx_retries"),
     influx_measurement_name : OptionValues("influx_measurement_name")]

\* Nothing is configured.
NoConfig == [o \in OptionNames |-> OptionNone(o)]

\* The configurations of the runs whose events are modelled: a complete one,
\* one with the measurement left to its default, and one without a host.
RunConfig(host, measurement) ==
    [NoConfig EXCEPT !["influx_host"] = host,
                     !["influx_database"] = StrV("metrics"),
                     !["influx_username"] = StrV("ansible"),
                     !["influx_password"] = StrV("secret"),
                     !["influx_measurement_name"] = measurement]

RunConfigs ==
    {RunConfig(StrV("influx.example"), StrV("plays")),
     RunConfig(StrV("influx.example"), NoneStr),
     RunConfig(NoneStr, NoneStr)}

\* AnsiblePlugin.get_option: the configured value, else the declared default.
get_option(cfg, o) == IF IsNone(cfg[o]) THEN DocDefault(o) ELSE cfg[o]

\* The dict self.influx before set_options has filled it.
EmptyDict == [k \in {} |-> NoneStr]

\* set_options, lines 171-180: the dict self.influx.
influx_options(cfg) ==
    [host |-> get_option(cfg, "influx_host"),
     port |-> PyOr(get_option(cfg, "influx_port"), IntV(8086)),
     database |-> get_option(cfg, "influx_database"),
     username |-> get_option(cfg, "influx_username"),
     password |-> get_option(cfg, "influx_password"),
     ssl |-> PyOr(get_option(cfg, "influx_use_ssl"), BoolV(FALSE)),
     verify_ssl |-> PyOr(get_option(cfg, "influx_verify_ssl"), BoolV(TRUE)),
     timeout |-> PyOr(get_option(cfg, "influx_timeout"), IntV(5)),
     retries |-> PyOr(get_option(cfg, "influx_retries"), IntV(3)),
     measurement |-> PyOr(get_option(cfg, "influx_measurement_name"), StrV("ansible_plays"))]

\* set_options without the two tests: nothing disables the plugin.
options_disable_never(opts) == FALSE

\* set_options, lines 182-191: the two "is None" tests that disable the plugin.
options_disable(opts) == IsNone(opts.host) \/ IsNone(opts.database)

(***************************************************************************)
(* The state after construction.                                           *)
(***************************************************************************)
NoEvent == [kind |-> "none", host |-> "", play |-> "", dropped |-> 0]

\* CallbackModule.__init__ (the base class sets disabled to False first).
AggInit ==
    /\ has_influxdb \in BOOLEAN
    /\ sink_reachable = FALSE
    /\ phase = "constructed"
    /\ disabled = ~has_influxdb
    /\ play = ""
    /\ start_time = EmptyDict
    /\ all_end_times = EmptyDict
    /\ influx = EmptyDict
    /\ config = NoConfig
    /\ now = 0
    /\ nevents = 0
    /\ last_event = NoEvent
    /\ last_error = "none"
    /\ sink_calls = <<>>
    /\ sink_written = <<>>
    /\ conn_open = FALSE

\* CallbackModule.set_options: called once by the plugin loader, before any event.
set_options(cfg) ==
    /\ phase = "constructed"
    /\ phase' = "configured"
    /\ config' = cfg
    /\ influx' = influx_options(cfg)
    /\ disabled' = (disabled \/ options_disable(influx_options(cfg)))
    /\ UNCHANGED <<has_influxdb, play, start_time, all_end_times, now, nevents,
                   last_event, last_error, sink_reachable, sink_calls, sink_written,
                   conn_open>>

(***************************************************************************)
(* Python dicts as functions.                                              *)
(***************************************************************************)
\* d[k] = v
DictSet(d, k, v) == [x \in (DOMAIN d) \cup {k} |-> IF x = k THEN v ELSE d[x]]

RECURSIVE SetToSeq(_)
SetToSeq(S) ==
    IF S = {} THEN <<>>
    ELSE LET x == CHOOSE y \in S : TRUE IN <<x>> \o SetToSeq(S \ {x})

RECURSIVE Concat(_)
Concat(ss) == IF ss = <<>> THEN <<>> ELSE Head(ss) \o Concat(Tail(ss))

(***************************************************************************)
(* The event handlers of CallbackModule.                                   *)
(***************************************************************************)
\* The names the class CallbackModule defines.
CallbackModule_attrs ==
    {"__init__", "_connect_to_influxdb", "set_options", "v2_playbook_on_play_start",
     "v2_playbook_on_stats", "time_in_milliseconds", "_create_data_point",
     "v2_runner_on_ok", "v2_runner_on_async_failed", "v2_runner_on_failed",
     "v2_runner_on_skipped", "v2_runner_on_unreachable", "v2_runner_on_async_ok"}

\* The event dispatcher skips a callback plugin whose disabled attribute is set.
callback_enabled == phase = "configured" /\ ~disabled

\* v2_playbook_on_play_start with self.all_end_times.setdefault(self.play, {}):
\* a play that starts again keeps the hosts recorded under its name.
v2_playbook_on_play_start_keep(p, t) ==
    /\ callback_enabled
    /\ nevents < MaxEvents
    /\ nevents' = nevents + 1
    /\ play' = p
    /\ start_time' = DictSet(start_time, p, t)
    /\ all_end_times' = IF p \in DOMAIN all_end_times THEN all_end_times
                         ELSE DictSet(all_end_times, p, EmptyDict)
    /\ now' = t
    /\ last_event' = [kind |-> "play_start", host |-> "", play |-> p,
                      dropped |-> IF p \in DOMAIN all_end_times
                                  THEN Cardinality(DOMAIN all_end_times[p]) ELSE 0]
    /\ last_error' = "none"
    /\ UNCHANGED <<has_influxdb, phase, disabled, influx, config, sink_reachable,
                   sink_calls, sink_written, conn_open>>

\* v2_playbook_on_play_start(play) at time t.
v2_playbook_on_play_start(p, t) ==
    /\ callback_enabled
    /\ nevents < MaxEvents
    /\ nevents' = nevents + 1
    /\ play' = p
    /\ start_time' = DictSet(start_time, p, t)
    /\ all_end_times' = DictSet(all_end_times, p, EmptyDict)
    /\ now' = t
    /\ last_event' = [kind |-> "play_start", host |-> "", play |-> p,
                      dropped |-> IF p \in DOMAIN all_end_times
                                  THEN Cardinality(DOMAIN all_end_times[p]) ELSE 0]
    /\ last_error' = "none"
    /\ UNCHANGED <<has_influxdb, phase, disabled, influx, config, sink_reachable,
                   sink_calls, sink_written, conn_open>>

\* _create_data_point with self.all_end_times.setdefault(self.play, {}): an
\* outcome for a play that never started is recorded instead of raising.
_create_data_point_setdefault(aet, pl, hostname, state, t) ==
    LET hosts == IF pl \in DOMAIN aet THEN aet[pl] ELSE EmptyDict IN
    [error |-> "none",
     all_end_times |->
         DictSet(aet, pl, DictSet(hosts, hostname, [end_time |-> t, state |-> state]))]

\* _create_data_point with setdefault on the host: the first outcome of a host
\* in a play is kept, later ones are dropped.
_create_data_point_keep_first(aet, pl, hostname, state, t) ==
    IF pl \notin DOMAIN aet
    THEN [error |-> "KeyError", all_end_times |-> aet]
    ELSE IF hostname \in DOMAIN aet[pl]
    THEN [error |-> "none", all_end_times |-> aet]
    ELSE [error |-> "none",
          all_end_times |->
              DictSet(aet, pl, DictSet(aet[pl], hostname,
                                       [end_time |-> t, state |-> state]))]

\* _create_data_point assigning a fresh dict to self.all_end_times[self.play]:
\* the entries of the play's other hosts are lost.
_create_data_point_replace_map(aet, pl, hostname, state, t) ==
    IF pl \notin DOMAIN aet
    THEN [error |-> "KeyError", all_end_times |-> aet]
    ELSE [error |-> "none",
          all_end_times |->
              DictSet(aet, pl, DictSet(EmptyDict, hostname,
                                       [end_time |-> t, state |-> state]))]

\* _create_data_point(hostname, state) at time t: the new self.all_end_times,
\* and the exception raised (self.all_end_times[self.play] is a KeyError when
\* the play has no entry).
_create_data_point(aet, pl, hostname, state, t) ==
    IF pl \notin DOMAIN aet
    THEN [error |-> "KeyError", all_end_times |-> aet]
    ELSE [error |-> "none",
          all_end_times |->
              DictSet(aet, pl, DictSet(aet[pl], hostname,
                                       [end_time |-> t, state |-> state]))]

\* v2_runner_on_skipped passing "skipped" instead of "ok".
runner_state_skipped(kind) ==
    CASE kind = "ok" -> "ok"
      [] kind = "async_failed" -> "failed"
      [] kind = "failed" -> "failed"
      [] kind = "skipped" -> "skipped"
      [] kind = "unreachable" -> "unreachable"
      [] kind = "async_ok" -> "ok"

\* The state each v2_runner_on_* handler passes to _create_data_point.
runner_state(kind) ==
    CASE kind = "ok" -> "ok"
      [] kind = "async_failed" -> "failed"
      [] kind = "failed" -> "failed"
      [] kind = "skipped" -> "ok"
      [] kind = "unreachable" -> "unreachable"
      [] kind = "async_ok" -> "ok"

\* A v2_runner_on_<kind>(result) handler, result._host = h, at time t.
v2_runner_on(kind, h, t) ==
    LET r == _create_data_point(all_end_times, play, h, runner_state(kind), t) IN
    /\ callback_enabled
    /\ nevents < MaxEvents
    /\ nevents' = nevents + 1
    /\ all_end_times' = r.all_end_times
    /\ last_error' = r.error
    /\ last_event' = [kind |-> kind, host |-> h, play |-> play,
                      dropped |-> IF play \in DOMAIN all_end_times
                                     /\ h \in DOMAIN all_end_times[play]
                                  THEN 1 ELSE 0]
    /\ now' = t
    /\ UNCHANGED <<has_influxdb, phase, disabled, play, start_time, influx, config,
                   sink_reachable, sink_calls, sink_written, conn_open>>

v2_runner_on_ok(h, t) == v2_runner_on("ok", h, t)
v2_runner_on_async_failed(h, t) == v2_runner_on("async_failed", h, t)
v2_runner_on_failed(h, t) == v2_runner_on("failed", h, t)
v2_runner_on_skipped(h, t) == v2_runner_on("skipped", h, t)
v2_runner_on_unreachable(h, t) == v2_runner_on("unreachable", h, t)
v2_runner_on_async_ok(h, t) == v2_runner_on("async_ok", h, t)

\* v2_playbook_on_stats, lines 203-219: the list data_points.
data_point(opts, st, aet, pl, h, t) ==
    [measurement |-> opts.measurement,
     tags |-> [host |-> h, play |-> pl],
     time |-> t,
     fields |-> [duration |-> aet[pl][h].end_time - st[pl],
                 state |-> aet[pl][h].state]]

play_points(opts, st, aet, pl, t) ==
    LET hs == SetToSeq(DOMAIN aet[pl]) IN
    [i \in 1..Len(hs) |-> data_point(opts, st, aet, pl, hs[i], t)]

data_points(opts, st, aet, t) ==
    LET ps == SetToSeq(DOMAIN aet) IN
    Concat([i \in 1..Len(ps) |-> play_points(opts, st, aet, ps[i], t)])

\* The steps of v2_playbook_on_stats, given the names the instance has, the
\* batch it would write and how the sink behaves.  failAt is where an
\* unreachable sink makes the client library raise.
stats_steps(attrs, batch, reachable, failAt) ==
    IF "connect_to_influxdb" \notin attrs
    THEN [error |-> "AttributeError", calls |-> <<>>, written |-> <<>>, open |-> FALSE]
    ELSE IF ~reachable /\ failAt = "InfluxDBClient"
    THEN [error |-> "ConnectionError", calls |-> <<"InfluxDBClient">>,
          written |-> <<>>, open |-> FALSE]
    ELSE IF ~reachable
    THEN [error |-> "ConnectionError", calls |-> <<"InfluxDBClient", "write_points">>,
          written |-> <<>>, open |-> TRUE]
    ELSE [error |-> "none", calls |-> <<"InfluxDBClient", "write_points", "close">>,
          written |-> <<batch>>, open |-> FALSE]

\* v2_playbook_on_stats with its body wrapped in "try: ... except Exception:
\* pass": every failure of the flush is swallowed.
v2_playbook_on_stats_swallow(attrs, batch, reachable, failAt) ==
    [stats_steps(attrs, batch, reachable, failAt) EXCEPT !.error = "none"]

\* v2_playbook_on_stats has no try/except: what its steps raise, it raises.
v2_playbook_on_stats_run(attrs, batch, reachable, failAt) ==
    stats_steps(attrs, batch, reachable, failAt)

\* v2_playbook_on_stats(stats) at time t: the run-end event.
v2_playbook_on_stats(t) ==
    /\ callback_enabled
    /\ \E reachable \in BOOLEAN, failAt \in {"InfluxDBClient", "write_points"} :
          LET r == v2_playbook_on_stats_run(CallbackModule_attrs,
                       data_points(influx, start_time, all_end_times, t),
                       reachable, failAt) IN
          /\ sink_reachable' = reachable
          /\ last_error' = r.error
          /\ sink_calls' = sink_calls \o r.calls
          /\ sink_written' = sink_written \o r.written
          /\ conn_open' = r.open
    /\ phase' = "ended"
    /\ now' = t
    /\ last_event' = [kind |-> "stats", host |-> "", play |-> play, dropped |-> 0]
    /\ UNCHANGED <<has_influxdb, disabled, play, start_time, all_end_times, influx,
                   config, nevents>>

\* A play-start or host-outcome event of the run while the plugin is
\* disabled: the dispatcher calls no handler of it.
skipped_event ==
    /\ phase = "configured"
    /\ disabled
    /\ nevents < MaxEvents
    /\ nevents' = nevents + 1
    /\ UNCHANGED <<has_influxdb, phase, disabled, play, start_time, all_end_times,
                   influx, config, now, last_event, last_error, sink_reachable,
                   sink_calls, sink_written, conn_open>>

\* The run-end event while the plugin is disabled: no handler is called.
skipped_stats ==
    /\ phase = "configured"
    /\ disabled
    /\ phase' = "skipped"
    /\ UNCHANGED <<has_influxdb, disabled, play, start_time, all_end_times, influx,
                   config, now, nevents, last_event, last_error, sink_reachable,
                   sink_calls, sink_written, conn_open>>

(***************************************************************************)
(* The specifications of the callback plugin.                              *)
(***************************************************************************)
UtmIdle == UNCHANGED utmVars

SetOptions == phase = "constructed" /\ (\E cfg \in Configs : set_options(cfg)) /\ UtmIdle
SetRunOptions == phase = "constructed" /\ (\E cfg \in RunConfigs : set_options(cfg)) /\ UtmIdle
PlayStart == callback_enabled /\ (\E p \in Plays, t \in now..MaxTime : v2_playbook_on_play_start(p, t)) /\ UtmIdle
RunnerOk == callback_enabled /\ (\E h \in Hosts, t \in now..MaxTime : v2_runner_on_ok(h, t)) /\ UtmIdle
RunnerAsyncFailed == callback_enabled /\ (\E h \in Hosts, t \in now..MaxTime : v2_runner_on_async_failed(h, t)) /\ UtmIdle
RunnerFailed == callback_enabled /\ (\E h \in Hosts, t \in now..MaxTime : v2_runner_on_failed(h, t)) /\ UtmIdle
RunnerSkipped == callback_enabled /\ (\E h \in Hosts, t \in now..MaxTime : v2_runner_on_skipped(h, t)) /\ UtmIdle
RunnerUnreachable == callback_enabled /\ (\E h \in Hosts, t \in now..MaxTime : v2_runner_on_unreachable(h, t)) /\ UtmIdle
RunnerAsyncOk == callback_enabled /\ (\E h \in Hosts, t \in now..MaxTime : v2_runner_on_async_ok(h, t)) /\ UtmIdle
Stats == callback_enabled /\ (\E t \in now..MaxTime : v2_playbook_on_stats(t)) /\ UtmIdle
SkippedEvent == skipped_event /\ UtmIdle
SkippedStats == skipped_stats /\ UtmIdle

UtmInit0 == remote = <<>> /\ result = [invoked |-> FALSE] /\ prev = [invoked |-> FALSE]

InitOptions == AggInit /\ UtmInit0
NextOptions == SetOptions
SpecOptions == InitOptions /\ [][NextOptions]_vars

InitAggregator == AggInit /\ UtmInit0
NextAggregator ==
    \/ SetRunOptions
    \/ PlayStart
    \/ RunnerOk
    \/ RunnerAsyncFailed
    \/ RunnerFailed
    \/ RunnerSkipped
    \/ RunnerUnreachable
    \/ RunnerAsyncOk
    \/ Stats
    \/ SkippedEvent
    \/ SkippedStats
SpecAggregator == InitAggregator /\ [][NextAggregator]_vars

(***************************************************************************)
(* utm_aaa_group.py: the module's arguments.                               *)
(***************************************************************************)
endpoint == "aaa/group"

\* The watched list with the server-assigned reference among its names.
key_to_check_for_changes_with_ref ==
    {"_ref", "comment", "adirectory_groups", "adirectory_groups_sids", "backend_match",
     "dynamic", "edirectory_groups", "ipsec_dn", "ldap_attribute", "ldap_attribute_value",
     "members", "network", "radius_groups", "tacas_groups"}

\* The watched list with "members" forgotten.
key_to_check_for_changes_without_members ==
    {"comment", "adirectory_groups", "adirectory_groups_sids", "backend_match", "dynamic",
     "edirectory_groups", "ipsec_dn", "ldap_attribute", "ldap_attribute_value",
     "network", "radius_groups", "tacas_groups"}

key_to_check_for_changes ==
    {"comment", "adirectory_groups", "adirectory_groups_sids", "backend_match", "dynamic",
     "edirectory_groups", "ipsec_dn", "ldap_attribute", "ldap_attribute_value", "members",
     "network", "radius_groups", "tacas_groups"}

\* argument_spec: the default of every optional argument (name is required).
argument_spec_defaults ==
    [adirectory_groups |-> <<>>,
     adirectory_groups_sids |-> EmptyDict,
     backend_match |-> "none",
     comment |-> "",
     dynamic |-> "none",
     edirectory_groups |-> <<>>,
     ipsec_dn |-> "",
     ldap_attribute |-> "",
     ldap_attribute_value |-> "",
     members |-> <<>>,
     network |-> "",
     radius_groups |-> <<>>,
     tacas_groups |-> <<>>]

\* The arguments of type 'list' with "members" declared without a type.
list_arguments_without_members ==
    {"adirectory_groups", "edirectory_groups", "radius_groups", "tacas_groups"}

\* argument_spec: the arguments of type 'list'.
list_arguments ==
    {"adirectory_groups", "edirectory_groups", "members", "radius_groups", "tacas_groups"}

\* module.params for a task that names the object and sets some arguments.
module_params(name, members, backend_match) ==
    [k \in (DOMAIN argument_spec_defaults) \cup {"name"} |->
        CASE k = "name" -> name
          [] k = "members" -> members
          [] k = "backend_match" -> backend_match
          [] OTHER -> argument_spec_defaults[k]]

Names == {"G1", "G2"}
MemberLists == {<<>>, <<"u1", "u2">>, <<"u2", "u1">>}
BackendMatches == {"none", "ldap"}
Intents == {"present", "absent"}
\* The arguments a task may give a list for.
ListInputs == {"adirectory_groups", "edirectory_groups", "members", "radius_groups",
               "tacas_groups"}

(***************************************************************************)
(* The reconciliation the module delegates to (UTM.execute), after its     *)
(* contract: look the object up by name, then create, update, delete or    *)
(* do nothing.                                                             *)
(***************************************************************************)
Range(f) == {f[i] : i \in DOMAIN f}

\* Value equality of one field; list-typed fields compare as sets.
field_equal(k, desired, actual) ==
    IF k \in list_arguments THEN Range(desired) = Range(actual) ELSE desired = actual

\* The watched fields whose desired value differs from the remote value.  A
\* watched name that only one side carries counts as a difference.
ChangeSet(keys, params, obj) ==
    {k \in keys :
        IF k \in DOMAIN params /\ k \in DOMAIN obj
        THEN ~field_equal(k, params[k], obj[k])
        ELSE (k \in DOMAIN params) /= (k \in DOMAIN obj)}

\* The object the store holds after a create or an update with this payload.
remote_object(payload) ==
    [k \in (DOMAIN payload) \cup {"_ref", "_locked", "_type"} |->
        CASE k = "_ref" -> "REF_" \o payload["name"]
          [] k = "_locked" -> ""
          [] k = "_type" -> endpoint
          [] OTHER -> payload[k]]

DictDel(d, k) == [x \in (DOMAIN d) \ {k} |-> d[x]]

NoObject == [absent |-> TRUE]

ExecResult(raised, changed, calls, store, object) ==
    [raised |-> raised, changed |-> changed, calls |-> calls, store |-> store,
     object |-> object]

\* intent=absent that deletes whether or not the lookup found the object.
execute_absent_always_deletes(store, name, get, writeFails) ==
    LET call == [op |-> "DELETE", ref |-> "REF_" \o name] IN
    IF writeFails THEN ExecResult("delete failed", FALSE, <<get, call>>, store, NoObject)
    ELSE ExecResult("none", TRUE, <<get, call>>, DictDel(store, name), NoObject)

\* intent=absent: delete the object when it exists, else do nothing.
execute_absent(store, name, get, writeFails) ==
    IF name \in DOMAIN store THEN
        LET call == [op |-> "DELETE", ref |-> store[name]["_ref"]] IN
        IF writeFails THEN ExecResult("delete failed", FALSE, <<get, call>>, store, NoObject)
        ELSE ExecResult("none", TRUE, <<get, call>>, DictDel(store, name), NoObject)
    ELSE ExecResult("none", FALSE, <<get>>, store, NoObject)

\* intent=present: create the object when it does not exist, update it when a
\* watched field differs, else do nothing.
execute_present(store, params, keys, get, writeFails) ==
    LET name == params["name"] IN
    IF name \notin DOMAIN store THEN
        LET call == [op |-> "POST", payload |-> params] IN
        IF writeFails THEN ExecResult("create failed", FALSE, <<get, call>>, store, NoObject)
        ELSE ExecResult("none", TRUE, <<get, call>>,
                        DictSet(store, name, remote_object(params)), remote_object(params))
    ELSE IF ChangeSet(keys, params, store[name]) = {} THEN
        ExecResult("none", FALSE, <<get>>, store, store[name])
    ELSE
        LET call == [op |-> "PUT", ref |-> store[name]["_ref"], payload |-> params] IN
        IF writeFails THEN ExecResult("update failed", FALSE, <<get, call>>, store, NoObject)
        ELSE ExecResult("none", TRUE, <<get, call>>,
                        DictSet(store, name, remote_object(params)), remote_object(params))

\* One reconcile call: the calls it issues, the store it leaves, the changed
\* flag it reports and the error it raises.  lookupFails and writeFails say
\* how the transport answers the read and the write call.
UTM_execute(store, params, state, keys, lookupFails, writeFails) ==
    LET get == [op |-> "GET", name |-> params["name"]] IN
    IF lookupFails THEN ExecResult("lookup failed", FALSE, <<get>>, store, NoObject)
    ELSE IF state = "absent" THEN execute_absent(store, params["name"], get, writeFails)
    ELSE execute_present(store, params, keys, get, writeFails)

\* main with "except Exception: pass": the error is dropped and the module
\* ends without reporting a failure.
main_outcome_swallow(run) ==
    [failed |-> FALSE, msg |-> "", changed |-> run.changed]

\* main, lines 208-211: an exception of execute ends the module in fail_json
\* with the exception's text; otherwise execute's own result stands.
main_outcome(run) ==
    IF run.raised /= "none"
    THEN [failed |-> TRUE, msg |-> run.raised, changed |-> FALSE]
    ELSE [failed |-> FALSE, msg |-> "", changed |-> run.changed]

NoResult == [invoked |-> FALSE]
NoPrev == [invoked |-> FALSE]

\* One invocation of the module: main().
main(params, state, lookupFails, writeFails) ==
    LET run == UTM_execute(remote, params, state, key_to_check_for_changes,
                           lookupFails, writeFails)
        out == main_outcome(run)
    IN
    /\ remote' = run.store
    /\ result' = [invoked |-> TRUE, params |-> params, state |-> state,
                  existed |-> params["name"] \in DOMAIN remote,
                  raised |-> run.raised, calls |-> run.calls,
                  failed |-> out.failed, msg |-> out.msg, changed |-> out.changed]
    /\ prev' = IF result.invoked
               THEN [invoked |-> TRUE,
                     same |-> (result.params = params /\ result.state = state),
                     existed |-> result.existed, failed |-> result.failed,
                     changed |-> result.changed]
               ELSE NoPrev

AggIdle == UNCHANGED aggVars

Main ==
    /\ \E n \in Names, m \in MemberLists, b \in BackendMatches,
          st \in Intents, lf \in BOOLEAN, wf \in BOOLEAN :
            main(module_params(n, m, b), st, lf, wf)
    /\ AggIdle

\* module.params for a task that names the object and sets one list argument.
list_params(name, field, list) ==
    [module_params(name, <<>>, "none") EXCEPT ![field] = list]

\* Invocations for one object that differ in one list-typed argument.
MainListField ==
    /\ \E f \in ListInputs, l \in MemberLists, st \in Intents,
          lf \in BOOLEAN, wf \in BOOLEAN :
            main(list_params("G1", f, l), st, lf, wf)
    /\ AggIdle

InitReconciler == AggInit /\ has_influxdb /\ remote = EmptyDict /\ result = NoResult /\ prev = NoPrev
NextReconciler == Main
SpecReconciler == InitReconciler /\ [][NextReconciler]_vars

NextListOrder == MainListField
SpecListOrder == InitReconciler /\ [][NextListOrder]_vars

(***************************************************************************)
(* Properties of the callback plugin.                                      *)
(***************************************************************************)
OutcomeKinds == {"ok", "failed", "unreachable", "skipped", "async_ok", "async_failed"}

\* The (play, host) pairs the accumulator holds.
RecordedPairs ==
    UNION {{<<p, h>> : h \in DOMAIN all_end_times[p]} : p \in DOMAIN all_end_times}

\* Every point a write_points call has handed to the sink.
EmittedPoints == Concat(sink_written)

\* The points emitted for one pair.
PointsOf(p, h) ==
    {i \in 1..Len(EmittedPoints) :
        EmittedPoints[i].tags = [host |-> h, play |-> p]}

\* C1: after the run-end event (the sink being reachable), exactly one point
\* was emitted for every recorded (play, host) pair and none for any other
\* pair; the point carries the tags of its pair and
\* duration = end time of the host in the play - start time of the play.
C1_FlushEmitsOnePointPerPair ==
    (phase = "ended" /\ sink_reachable) =>
        /\ \A pr \in RecordedPairs :
              /\ Cardinality(PointsOf(pr[1], pr[2])) = 1
              /\ \A i \in PointsOf(pr[1], pr[2]) :
                    EmittedPoints[i].fields.duration =
                        all_end_times[pr[1]][pr[2]].end_time - start_time[pr[1]]
        /\ Len(EmittedPoints) = Cardinality(RecordedPairs)

\* C5: a host-outcome event delivered while the current play has no entry in
\* the accumulator (no play-start was received) raises an error and leaves
\* both maps of the accumulator as they were.
C5_OutcomeBeforePlayStartRaises ==
    [][(/\ nevents' = nevents + 1
        /\ last_event'.kind \in OutcomeKinds
        /\ play \notin DOMAIN all_end_times)
       => (/\ last_error' = "KeyError"
           /\ all_end_times' = all_end_times
           /\ start_time' = start_time)]_vars

C5_Witness ==
    /\ last_event.kind \in OutcomeKinds
    /\ last_event.play \notin DOMAIN start_time
    /\ last_error = "KeyError"
    /\ RecordedPairs = {}

\* An option value that is unset or the empty string.
EmptyOrUnset(x) == IsNone(x) \/ x = StrV("")

\* C6: after set_options (the influxdb library being present) the plugin is
\* disabled exactly when influx_host or influx_database is unset or empty.
C6_DisabledIffHostOrDatabaseEmpty ==
    (phase = "configured" /\ has_influxdb) =>
        (disabled <=> (EmptyOrUnset(config.influx_host)
                       \/ EmptyOrUnset(config.influx_database)))

C8_FlushConnectWriteClose ==
    (phase = "ended" /\ sink_reachable) =>
        /\ sink_calls = <<"InfluxDBClient", "write_points", "close">>
        /\ sink_written = <<data_points(influx, start_time, all_end_times, now)>>
        /\ last_error = "none"

\* C9: after set_options every optional option has its configured value when
\* one is configured (False and 0 included), and its default (8086, False,
\* True, 5, 3, "ansible_plays") when none is.
EffectiveOption(configured, default) ==
    IF IsNone(configured) THEN default ELSE configured

C9_OptionsKeepConfiguredValues ==
    phase = "configured" =>
        /\ influx.port = EffectiveOption(config.influx_port, IntV(8086))
        /\ influx.ssl = EffectiveOption(config.influx_use_ssl, BoolV(FALSE))
        /\ influx.verify_ssl = EffectiveOption(config.influx_verify_ssl, BoolV(TRUE))
        /\ influx.timeout = EffectiveOption(config.influx_timeout, IntV(5))
        /\ influx.retries = EffectiveOption(config.influx_retries, IntV(3))
        /\ influx.measurement =
              EffectiveOption(config.influx_measurement_name, StrV("ansible_plays"))

(***************************************************************************)
(* Properties of the reconciler.                                           *)
(***************************************************************************)
IsWrite(call) == call.op \in {"POST", "PUT", "DELETE"}

\* The create, update and delete calls among the calls of an invocation.
Writes(calls) == SelectSeq(calls, IsWrite)

Issued(calls, op) == \E i \in 1..Len(calls) : calls[i].op = op

\* C2: when an invocation with intent=present found its object absent and
\* the next invocation has the same arguments (both returning a result), the
\* first reported changed=true, and the second reports changed=false and
\* issues no create, update or delete call.
C2_ReconcileIdempotent ==
    (/\ result.invoked /\ prev.invoked /\ prev.same
     /\ result.state = "present"
     /\ ~prev.existed
     /\ ~prev.failed /\ ~result.failed)
    => (/\ prev.changed
        /\ ~result.changed
        /\ Writes(result.calls) = <<>>)

C2_Witness ==
    /\ result.invoked /\ prev.invoked /\ prev.same
    /\ result.state = "present"
    /\ ~prev.existed /\ ~prev.failed /\ prev.changed
    /\ result.existed /\ ~result.failed /\ ~result.changed
    /\ Writes(result.calls) = <<>>
    /\ result.params["members"] /= <<>>

\* C3: an invocation with intent=absent for a name the store does not hold
\* issues no write call, leaves the store as it was and reports
\* changed=false.
C3_AbsentOnMissingIsNoOp ==
    [][(/\ result'.invoked
        /\ result'.state = "absent"
        /\ result'.params["name"] \notin DOMAIN remote)
       => (/\ Writes(result'.calls) = <<>>
           /\ remote' = remote
           /\ ~result'.changed)]_vars

C3_Witness ==
    /\ result.invoked
    /\ result.state = "absent"
    /\ ~result.existed
    /\ ~result.failed
    /\ ~result.changed
    /\ Writes(result.calls) = <<>>
    /\ result.params["name"] \notin DOMAIN remote

\* Some argument of the desired spec differs from the remote object.
SpecDiffers(params, obj) ==
    \E k \in DOMAIN argument_spec_defaults : ~field_equal(k, params[k], obj[k])

\* C4: every invocation issues at most one write call.  Once the lookup has
\* answered, the call is a delete exactly when intent=absent and the object
\* exists, a create carrying every argument exactly when intent=present and
\* the object does not exist, an update exactly when intent=present, the
\* object exists and a watched field differs.  An invocation that returns a
\* result reports changed=true exactly when it issued a write call.
C4_ReconcileBranchTable ==
    [][result'.invoked =>
        LET r == result'
            name == r.params["name"]
            exists == name \in DOMAIN remote
            ws == Writes(r.calls)
        IN
        /\ Len(ws) <= 1
        /\ r.raised /= "lookup failed" =>
              /\ Issued(ws, "DELETE") <=> (r.state = "absent" /\ exists)
              /\ Issued(ws, "POST") <=> (r.state = "present" /\ ~exists)
              /\ Issued(ws, "PUT") <=>
                    (r.state = "present" /\ exists /\ SpecDiffers(r.params, remote[name]))
              /\ Issued(ws, "POST") =>
                    /\ ws[1].payload = r.params
                    /\ DOMAIN ws[1].payload = (DOMAIN argument_spec_defaults) \cup {"name"}
        /\ ~r.failed => (r.changed <=> ws /= <<>>)]_vars

C4_Witness ==
    /\ result.invoked
    /\ result.state = "present"
    /\ result.existed
    /\ Issued(result.calls, "PUT")
    /\ result.changed
    /\ remote[result.params["name"]]["members"] = result.params["members"]

\* C10: an invocation whose reconcile execution raised an error ends failed,
\* with the error's message, and never as a success.
C10_ReconcilerErrorsSurface ==
    (result.invoked /\ result.raised /= "none") =>
        (/\ result.failed
         /\ result.msg = result.raised
         /\ ~result.changed)

C10_Witness ==
    /\ result.invoked
    /\ result.raised = "delete failed"
    /\ result.failed
    /\ result.msg = "delete failed"
    /\ result.params["name"] \in DOMAIN remote

\* The list-typed watched fields C11 names.
ListWatchedFields ==
    {"adirectory_groups", "edirectory_groups", "members", "radius_groups", "tacas_groups"}

\* The desired spec and the remote object differ, and only in the element
\* order of list-typed watched fields.
DiffersOnlyInListOrder(params, obj) ==
    /\ \E f \in ListWatchedFields : params[f] /= obj[f]
    /\ \A f \in ListWatchedFields : Range(params[f]) = Range(obj[f])
    /\ \A k \in (DOMAIN argument_spec_defaults) \ ListWatchedFields : params[k] = obj[k]

\* C11: when the desired spec and the remote object differ only in the
\* element order of a list-typed watched field, the ChangeSet is empty, and an
\* invocation with intent=present whose lookup answered issues no write call
\* and reports changed=false.
C11_ListOrderIsNoChange ==
    [][(/\ result'.invoked
        /\ result'.state = "present"
        /\ result'.raised /= "lookup failed"
        /\ result'.params["name"] \in DOMAIN remote
        /\ DiffersOnlyInListOrder(result'.params, remote[result'.params["name"]]))
       => (/\ ChangeSet(key_to_check_for_changes, result'.params,
                        remote[result'.params["name"]]) = {}
           /\ Writes(result'.calls) = <<>>
           /\ remote' = remote
           /\ ~result'.failed
           /\ ~result'.changed)]_vars

C11_Witness ==
    /\ result.invoked
    /\ result.state = "present"
    /\ result.existed
    /\ ~result.failed
    /\ ~result.changed
    /\ "G1" \in DOMAIN remote
    /\ result.params["tacas_groups"] = <<"u2", "u1">>
    /\ remote["G1"]["tacas_groups"] = <<"u1", "u2">>

(***************************************************************************)
(* Further properties of the callback plugin.                              *)
(***************************************************************************)
\* The client library was asked for a connection, and later to close it.
OpenedThenClosed ==
    \E i, j \in 1..Len(sink_calls) :
        i < j /\ sink_calls[i] = "InfluxDBClient" /\ sink_calls[j] = "close"

SelfDisabled ==
    \/ disabled
    \/ ~has_influxdb
    \/ /\ phase /= "constructed"
       /\ (IsNone(config.influx_host) \/ IsNone(config.influx_database))

\* C13: once the plugin has disabled itself it stays disabled, and no later
\* event changes the accumulator maps, opens a connection or writes a point.
C13_DisabledEventsAreNoOps ==
    [][SelfDisabled =>
        (/\ disabled'
         /\ play' = play
         /\ start_time' = start_time
         /\ all_end_times' = all_end_times
         /\ sink_calls' = sink_calls
         /\ sink_written' = sink_written
         /\ conn_open' = conn_open
         /\ last_error' = last_error)]_vars

C13_Witness ==
    /\ disabled
    /\ has_influxdb
    /\ phase = "skipped"
    /\ nevents >= 2
    /\ all_end_times = EmptyDict
    /\ start_time = EmptyDict
    /\ sink_calls = <<>>
    /\ sink_written = <<>>

\* The step delivers a host-outcome event to its handler while the
\* current play has its map in the accumulator.
OutcomeRecorded ==
    /\ nevents' = nevents + 1
    /\ last_event'.kind \in OutcomeKinds
    /\ play \in DOMAIN all_end_times

\* The outcome state C14 lists for each kind of host-outcome event.
OutcomeTable(kind) ==
    IF kind \in {"ok", "skipped", "async_ok"} THEN "ok"
    ELSE IF kind \in {"failed", "async_failed"} THEN "failed"
    ELSE "unreachable"

\* The points the run-end handler builds from the accumulator.
BuiltPoints == data_points(influx, start_time, all_end_times, now)

\* Every recorded state is one of the three outcome states, and every point
\* built or emitted for a pair carries the state recorded for the pair.
RecordedStatesValid ==
    /\ \A pr \in RecordedPairs :
          all_end_times[pr[1]][pr[2]].state \in {"ok", "failed", "unreachable"}
    /\ \A i \in 1..Len(BuiltPoints) :
          BuiltPoints[i].fields.state =
              all_end_times[BuiltPoints[i].tags.play][BuiltPoints[i].tags.host].state
    /\ \A i \in 1..Len(EmittedPoints) :
          EmittedPoints[i].fields.state =
              all_end_times[EmittedPoints[i].tags.play][EmittedPoints[i].tags.host].state

\* C14: a host-outcome event records for its host the state ok -> "ok",
\* failed -> "failed", unreachable -> "unreachable", skipped -> "ok",
\* async-ok -> "ok", async-failed -> "failed"; no other state is ever
\* recorded, and the state of a point is the recorded state.
C14_OutcomeMapping ==
    /\ (last_event.kind \in OutcomeKinds /\ last_error = "none") =>
          /\ play \in DOMAIN all_end_times
          /\ last_event.host \in DOMAIN all_end_times[play]
          /\ all_end_times[play][last_event.host].state = OutcomeTable(last_event.kind)
    /\ RecordedStatesValid

C14_Witness ==
    /\ last_event.kind = "skipped"
    /\ last_error = "none"
    /\ play \in DOMAIN all_end_times
    /\ last_event.host \in DOMAIN all_end_times[play]
    /\ all_end_times[play][last_event.host].state = "ok"
    /\ \E i \in 1..Len(BuiltPoints) :
          /\ BuiltPoints[i].tags = [host |-> last_event.host, play |-> play]
          /\ BuiltPoints[i].fields.state = "ok"

\* C15: a play-start event for play p makes p the current play, records the
\* current time as p's start time and resets p's per-host map to empty,
\* whatever was recorded under p before; the start times and the per-host
\* maps of all other plays stay as they were.
C15_PlayStartResetsOnlyItsPlay ==
    [][(nevents' = nevents + 1 /\ last_event'.kind = "play_start") =>
        LET p == last_event'.play IN
        /\ play' = p
        /\ DOMAIN start_time' = (DOMAIN start_time) \cup {p}
        /\ DOMAIN all_end_times' = (DOMAIN all_end_times) \cup {p}
        /\ start_time'[p] = now'
        /\ all_end_times'[p] = EmptyDict
        /\ \A q \in (DOMAIN start_time) \ {p} : start_time'[q] = start_time[q]
        /\ \A q \in (DOMAIN all_end_times) \ {p} : all_end_times'[q] = all_end_times[q]]_vars

C15_Witness ==
    /\ last_event.kind = "play_start"
    /\ last_event.dropped >= 1
    /\ play = last_event.play
    /\ all_end_times[play] = EmptyDict
    /\ start_time[play] = now
    /\ \E q \in DOMAIN start_time : q /= play /\ start_time[q] < now

\* C16: every play with an entry in the end-times map has a start time, so
\* the duration of every recorded (play, host) pair is defined.
C16_RecordedPlaysHaveStartTime ==
    /\ DOMAIN all_end_times \subseteq DOMAIN start_time
    /\ \A pr \in RecordedPairs :
          /\ pr[1] \in DOMAIN start_time
          /\ all_end_times[pr[1]][pr[2]].end_time - start_time[pr[1]] \in Int

C16_Witness ==
    /\ \E pr \in RecordedPairs :
          all_end_times[pr[1]][pr[2]].end_time - start_time[pr[1]] = MaxTime
    /\ Cardinality(DOMAIN all_end_times) = 2

\* C17: after a host-outcome event the accumulator holds for the host in the
\* current play the time and the state of that event, whatever it held for the
\* host before, and the run-end handler builds exactly one point for the pair,
\* with that state and the duration up to that event.
C17_LastOutcomeWins ==
    (last_event.kind \in OutcomeKinds /\ last_error = "none") =>
        LET h == last_event.host
            pts == {i \in 1..Len(BuiltPoints) :
                       BuiltPoints[i].tags = [host |-> h, play |-> play]}
        IN
        /\ play \in DOMAIN all_end_times
        /\ h \in DOMAIN all_end_times[play]
        /\ all_end_times[play][h] =
              [end_time |-> now, state |-> OutcomeTable(last_event.kind)]
        /\ Cardinality(pts) = 1
        /\ \A i \in pts :
              /\ BuiltPoints[i].fields.state = OutcomeTable(last_event.kind)
              /\ BuiltPoints[i].fields.duration = now - start_time[play]

C17_Witness ==
    /\ last_event.kind = "ok"
    /\ last_error = "none"
    /\ last_event.dropped = 1
    /\ all_end_times[play][last_event.host] = [end_time |-> now, state |-> "ok"]
    /\ now > start_time[play]

\* C18: a host-outcome event changes the entry of its host in the current
\* play's map and nothing else of the accumulator: the current play, all start
\* times, the entries of the play's other hosts and the maps of all other
\* plays stay as they were.
C18_OutcomeTouchesOneEntry ==
    [][OutcomeRecorded =>
        LET h == last_event'.host IN
        /\ play' = play
        /\ start_time' = start_time
        /\ DOMAIN all_end_times' = DOMAIN all_end_times
        /\ \A q \in (DOMAIN all_end_times) \ {play} : all_end_times'[q] = all_end_times[q]
        /\ DOMAIN all_end_times'[play] = (DOMAIN all_end_times[play]) \cup {h}
        /\ \A g \in (DOMAIN all_end_times[play]) \ {h} :
              all_end_times'[play][g] = all_end_times[play][g]]_vars

C18_Witness ==
    /\ last_event.kind \in OutcomeKinds
    /\ last_error = "none"
    /\ Cardinality(DOMAIN all_end_times[play]) = 2
    /\ \E q \in DOMAIN all_end_times : q /= play

====
